---- MODULE Spec2Model ----
(***************************************************************************)
(* Model of generate_weekly_schedule_transpose_12hr (src/main.py): the     *)
(* weekly schedule grid renderer.  One call of the function is one         *)
(* behaviour: Init draws the two arguments, and each block of the function *)
(* body is one action.                                                     *)
(***************************************************************************)
EXTENDS Integers, Sequences, FiniteSets, TLC

VARIABLES
    schedule_dict,  \* argument: day name -> sequence of <<start, end>> time strings
    start_day,      \* argument: the requested first column
    pc,             \* position in the function body
    days,           \* the (rotated) column order
    time_slots,     \* sequence of <<day, start_time, end_time>>
    earliest_hour,  \* None until derived
    latest_hour,    \* None until derived
    time_rows,      \* sequence of row labels
    table_data,     \* sequence of rows, each <<label, cell, cell, cell, cell, cell>>
    result          \* what the call produced: nothing yet, a table, or an exception

vars == <<schedule_dict, start_day, pc, days, time_slots, earliest_hour,
          latest_hour, time_rows, table_data, result>>

(***************************************************************************)
(* Bounds of the input space.                                              *)
(***************************************************************************)
\* Input times lie on the hours 0..MaxHour (24-hour clock), on the hour or the half hour.
MaxHour == 2

(***************************************************************************)
(* Time strings "hh:mm AM/PM" are records [hh, mm, ap]; parsed times are   *)
(* records [hour, minute] like datetime.time.                              *)
(***************************************************************************)
Minutes == {0, 30}

\* The text of the wall-clock time hour:minute on the 12-hour clock.
TimeStr(hour, minute) ==
    [hh |-> IF hour % 12 = 0 THEN 12 ELSE hour % 12,
     mm |-> minute,
     ap |-> IF hour < 12 THEN "AM" ELSE "PM"]

\* A string that does not match "%I:%M %p": "13:00 AM".
Malformed == [hh |-> 13, mm |-> 0, ap |-> "AM"]

\* Does datetime.strptime(s, "%I:%M %p") accept s?
Matches(s) == s.hh \in 1..12 /\ s.mm \in 0..59 /\ s.ap \in {"AM", "PM"}

\* datetime.strptime(s, "%I:%M %p").time()
Strptime(s) ==
    [hour   |-> (s.hh % 12) + (IF s.ap = "PM" THEN 12 ELSE 0),
     minute |-> s.mm]

\* datetime.strptime("12:00 AM", "%I:%M %p").time(): the marker of an absent day.
Midnight == Strptime([hh |-> 12, mm |-> 0, ap |-> "AM"])

(***************************************************************************)
(* The inputs.                                                             *)
(***************************************************************************)
WeekDays == <<"Monday", "Tuesday", "Wednesday", "Thursday", "Friday">>

DaySet == {WeekDays[i] : i \in 1..Len(WeekDays)}

\* The start days tried: the five weekdays and one unrecognised name.
StartDays == DaySet \cup {"Sunday"}

InputTimes == {<<h, m>> : h \in 0..MaxHour, m \in Minutes}

Before(a, b) == a[1] < b[1] \/ (a[1] = b[1] /\ a[2] < b[2])

\* Well-formed intervals (start strictly before end) and one with a malformed start.
Intervals ==
    {<<TimeStr(a[1], a[2]), TimeStr(b[1], b[2])>> :
        <<a, b>> \in {p \in InputTimes \X InputTimes : Before(p[1], p[2])}}
    \cup {<<Malformed, TimeStr(1, 0)>>}

EmptyWeek == [d \in {} |-> <<>>]

\* f with one more present day, or one more interval on a day that has some.
Extend(f) ==
    {[d \in DOMAIN f \cup {x} |-> IF d = x THEN l ELSE f[d]] :
        <<x, l>> \in (DaySet \ DOMAIN f) \X ({<<>>} \cup {<<iv>> : iv \in Intervals})}
    \cup
    {[f EXCEPT ![x] = Append(f[x], iv)] :
        <<x, iv>> \in {d \in DOMAIN f : f[d] # <<>>} \X Intervals}

\* Every WeekInput of at most one entry (a present day without intervals, or one interval).
SmallWeeks == {EmptyWeek} \cup Extend(EmptyWeek)

\* The WeekInputs tried: at most two entries, on one day or on two.
WeekInputs == SmallWeeks \cup UNION {Extend(f) : f \in SmallWeeks}

(***************************************************************************)
(* The function body, block by block.                                      *)
(***************************************************************************)
\* earliest_hour and latest_hour before their assignment.
None == -1

NoResult == [tag |-> "none", exc |-> "", at |-> "", headers |-> <<>>, rows |-> <<>>]

Raise(exc, at) ==
    [tag |-> "raise", exc |-> exc, at |-> at, headers |-> <<>>, rows |-> <<>>]

Return(headers, rows) ==
    [tag |-> "return", exc |-> "", at |-> "", headers |-> headers, rows |-> rows]

\* A lookup that falls back to the default start day instead of raising.
DayIndexDefault(day) ==
    IF \E i \in 1..Len(WeekDays) : WeekDays[i] = day
    THEN CHOOSE i \in 1..Len(WeekDays) : WeekDays[i] = day
    ELSE 1

\* days.index(start_day), 1-based; 0 stands for the ValueError of list.index.
DayIndex(day) ==
    IF \E i \in 1..Len(WeekDays) : WeekDays[i] = day
    THEN CHOOSE i \in 1..Len(WeekDays) : WeekDays[i] = day
    ELSE 0

\* A rotation whose second slice is one too long.
RotateDaysOffByOne(start_index) ==
    SubSeq(WeekDays, start_index, Len(WeekDays)) \o SubSeq(WeekDays, 1, start_index)

\* days[start_index:] + days[:start_index]
RotateDays(start_index) ==
    SubSeq(WeekDays, start_index, Len(WeekDays)) \o SubSeq(WeekDays, 1, start_index - 1)

\* The slots one day adds to time_slots.
DaySlots(dict, day) ==
    IF day \in DOMAIN dict
    THEN [i \in 1..Len(dict[day]) |->
            <<day, Strptime(dict[day][i][1]), Strptime(dict[day][i][2])>>]
    ELSE <<<<day, Midnight, Midnight>>>>

\* Does some strptime of the first loop raise?
ParseFails(dict, order) ==
    \E i \in 1..Len(order) :
        /\ order[i] \in DOMAIN dict
        /\ \E j \in 1..Len(dict[order[i]]) :
              ~Matches(dict[order[i]][j][1]) \/ ~Matches(dict[order[i]][j][2])

RECURSIVE CollectSlots(_, _)
CollectSlots(dict, order) ==
    IF order = <<>> THEN <<>>
    ELSE DaySlots(dict, Head(order)) \o CollectSlots(dict, Tail(order))

Min(S) == CHOOSE x \in S : \A y \in S : x <= y
Max(S) == CHOOSE x \in S : \A y \in S : x >= y

\* The hours min() ranges over: starts that are not 12:00 AM.
StartHours(slots) ==
    {slots[i][2].hour : i \in {j \in 1..Len(slots) : slots[j][2] # Midnight}}

\* The hours max() ranges over: ends that are not 12:00 AM.
EndHours(slots) ==
    {slots[i][3].hour : i \in {j \in 1..Len(slots) : slots[j][3] # Midnight}}

\* The start hour of the first counted slot instead of the minimum.
EarliestHourFirstSlot(slots) ==
    slots[Min({j \in 1..Len(slots) : slots[j][2] # Midnight})][2].hour

EarliestHour(slots) == Min(StartHours(slots))

LatestHour(slots) == Max(EndHours(slots)) + 1

\* datetime(1900, 1, 1, hour).strftime("%I:00 %p"), or "%I:00 AM" for hour 0.
Strftime(hour) ==
    IF hour # 0
    THEN [hh |-> IF hour % 12 = 0 THEN 12 ELSE hour % 12,
          mm |-> 0,
          ap |-> IF hour < 12 THEN "AM" ELSE "PM"]
    ELSE [hh |-> 12, mm |-> 0, ap |-> "AM"]

\* A range that includes its upper end.
HourRangeInclusive(lo, hi) == [i \in 1..(IF hi >= lo THEN hi - lo + 1 ELSE 0) |-> lo + i - 1]

\* range(earliest_hour, latest_hour) as a sequence
HourRange(lo, hi) == [i \in 1..(IF hi > lo THEN hi - lo ELSE 0) |-> lo + i - 1]

TimeRows(lo, hi) == [i \in 1..Len(HourRange(lo, hi)) |-> Strftime(HourRange(lo, hi)[i])]

\* The hour a row is evaluated at, recovered from its label.
RowHour(time_str) ==
    IF time_str # [hh |-> 12, mm |-> 0, ap |-> "AM"] THEN Strptime(time_str).hour ELSE 0

FullBlock == "full-block"
LowerHalf == "lower-half"
UpperHalf == "upper-half"
EmptyCell == ""

\* The scan with the end-at-half-hour test ahead of the start-at-half-hour test.
RECURSIVE ScanIntervalsEndFirst(_, _, _)
ScanIntervalsEndFirst(ivs, i, hour) ==
    IF i > Len(ivs) THEN EmptyCell
    ELSE LET start_time == Strptime(ivs[i][1])
             end_time   == Strptime(ivs[i][2])
         IN  IF start_time.hour <= hour /\ hour < end_time.hour
             THEN IF end_time.hour = hour + 1 /\ end_time.minute = 30 THEN UpperHalf
                  ELSE IF start_time.hour = hour /\ start_time.minute = 30 THEN LowerHalf
                  ELSE FullBlock
             ELSE IF start_time.hour = hour /\ start_time.minute = 0 THEN FullBlock
             ELSE ScanIntervalsEndFirst(ivs, i + 1, hour)

\* The scan with the end hour included in the covered span.
RECURSIVE ScanIntervalsEndIncluded(_, _, _)
ScanIntervalsEndIncluded(ivs, i, hour) ==
    IF i > Len(ivs) THEN EmptyCell
    ELSE LET start_time == Strptime(ivs[i][1])
             end_time   == Strptime(ivs[i][2])
         IN  IF start_time.hour <= hour /\ hour <= end_time.hour
             THEN IF start_time.hour = hour /\ start_time.minute = 30 THEN LowerHalf
                  ELSE IF end_time.hour = hour + 1 /\ end_time.minute = 30 THEN UpperHalf
                  ELSE FullBlock
             ELSE IF start_time.hour = hour /\ start_time.minute = 0 THEN FullBlock
             ELSE ScanIntervalsEndIncluded(ivs, i + 1, hour)

\* The inner loop over a day's intervals, from interval i on.
RECURSIVE ScanIntervals(_, _, _)
ScanIntervals(ivs, i, hour) ==
    IF i > Len(ivs) THEN EmptyCell
    ELSE LET start_time == Strptime(ivs[i][1])
             end_time   == Strptime(ivs[i][2])
         IN  IF start_time.hour <= hour /\ hour < end_time.hour
             THEN IF start_time.hour = hour /\ start_time.minute = 30 THEN LowerHalf
                  ELSE IF end_time.hour = hour + 1 /\ end_time.minute = 30 THEN UpperHalf
                  ELSE FullBlock
             ELSE IF start_time.hour = hour /\ start_time.minute = 0 THEN FullBlock
             ELSE ScanIntervals(ivs, i + 1, hour)

\* cell_content of one (day, hour)
CellContent(dict, day, hour) ==
    IF day \in DOMAIN dict THEN ScanIntervals(dict[day], 1, hour) ELSE EmptyCell

\* One row of table_data.
TableRow(dict, order, time_str) ==
    <<time_str>> \o [i \in 1..Len(order) |-> CellContent(dict, order[i], RowHour(time_str))]

\* The whole call as a function of its arguments.
Render(dict, start) ==
    IF DayIndex(start) = 0 THEN Raise("ValueError", "days.index")
    ELSE LET order == RotateDays(DayIndex(start)) IN
         IF ParseFails(dict, order) THEN Raise("ValueError", "strptime")
         ELSE LET slots == CollectSlots(dict, order) IN
              IF StartHours(slots) = {} THEN Raise("ValueError", "min")
              ELSE IF EndHours(slots) = {} THEN Raise("ValueError", "max")
              ELSE LET rows == TimeRows(EarliestHour(slots), LatestHour(slots)) IN
                   Return(<<"Time">> \o order,
                          [i \in 1..Len(rows) |-> TableRow(dict, order, rows[i])])

Init ==
    /\ schedule_dict \in WeekInputs
    /\ start_day \in StartDays
    /\ pc = "rotate"
    /\ days = WeekDays
    /\ time_slots = <<>>
    /\ earliest_hour = None
    /\ latest_hour = None
    /\ time_rows = <<>>
    /\ table_data = <<>>
    /\ result = NoResult

\* lines 27-31: an unknown start day raises from list.index
RotateRaise ==
    /\ pc = "rotate"
    /\ DayIndex(start_day) = 0
    /\ result' = Raise("ValueError", "days.index")
    /\ pc' = "done"
    /\ UNCHANGED <<schedule_dict, start_day, days, time_slots, earliest_hour,
                   latest_hour, time_rows, table_data>>

Rotate ==
    /\ pc = "rotate"
    /\ DayIndex(start_day) # 0
    /\ days' = RotateDays(DayIndex(start_day))
    /\ pc' = "collect"
    /\ UNCHANGED <<schedule_dict, start_day, time_slots, earliest_hour,
                   latest_hour, time_rows, table_data, result>>

\* lines 33-47
CollectRaise ==
    /\ pc = "collect"
    /\ ParseFails(schedule_dict, days)
    /\ result' = Raise("ValueError", "strptime")
    /\ pc' = "done"
    /\ UNCHANGED <<schedule_dict, start_day, days, time_slots, earliest_hour,
                   latest_hour, time_rows, table_data>>

Collect ==
    /\ pc = "collect"
    /\ ~ParseFails(schedule_dict, days)
    /\ time_slots' = CollectSlots(schedule_dict, days)
    /\ pc' = "range"
    /\ UNCHANGED <<schedule_dict, start_day, days, earliest_hour,
                   latest_hour, time_rows, table_data, result>>

\* lines 49-62: min() and max() raise on an empty sequence
RangeRaise ==
    /\ pc = "range"
    /\ StartHours(time_slots) = {} \/ EndHours(time_slots) = {}
    /\ earliest_hour' = IF StartHours(time_slots) = {} THEN earliest_hour
                        ELSE EarliestHour(time_slots)
    /\ result' = Raise("ValueError", IF StartHours(time_slots) = {} THEN "min" ELSE "max")
    /\ pc' = "done"
    /\ UNCHANGED <<schedule_dict, start_day, days, time_slots,
                   latest_hour, time_rows, table_data>>

DeriveRange ==
    /\ pc = "range"
    /\ StartHours(time_slots) # {}
    /\ EndHours(time_slots) # {}
    /\ earliest_hour' = EarliestHour(time_slots)
    /\ latest_hour' = LatestHour(time_slots)
    /\ pc' = "rows"
    /\ UNCHANGED <<schedule_dict, start_day, days, time_slots,
                   time_rows, table_data, result>>

\* lines 64-68
CreateTimeRows ==
    /\ pc = "rows"
    /\ time_rows' = TimeRows(earliest_hour, latest_hour)
    /\ pc' = "table"
    /\ UNCHANGED <<schedule_dict, start_day, days, time_slots, earliest_hour,
                   latest_hour, table_data, result>>

\* lines 72-100: one iteration of the loop over time_rows
RenderRow ==
    /\ pc = "table"
    /\ Len(table_data) < Len(time_rows)
    /\ table_data' = Append(table_data,
                            TableRow(schedule_dict, days, time_rows[Len(table_data) + 1]))
    /\ UNCHANGED <<schedule_dict, start_day, pc, days, time_slots, earliest_hour,
                   latest_hour, time_rows, result>>

\* lines 101-103
Tabulate ==
    /\ pc = "table"
    /\ Len(table_data) = Len(time_rows)
    /\ result' = Return(<<"Time">> \o days, table_data)
    /\ pc' = "done"
    /\ UNCHANGED <<schedule_dict, start_day, days, time_slots, earliest_hour,
                   latest_hour, time_rows, table_data>>

Next ==
    \/ RotateRaise
    \/ Rotate
    \/ CollectRaise
    \/ Collect
    \/ RangeRaise
    \/ DeriveRange
    \/ CreateTimeRows
    \/ RenderRow
    \/ Tabulate

Spec == Init /\ [][Next]_vars

(***************************************************************************)
(* Vocabulary of the properties, stated on the arguments themselves.       *)
(***************************************************************************)
ValidStart == start_day \in DaySet

Finished == pc = "done"

Returned == result.tag = "return"

\* The intervals of a day, none for an absent day.
DayIntervals(dict, day) == IF day \in DOMAIN dict THEN dict[day] ELSE <<>>

\* Every interval of the week, as <<day, position>>.
AllIntervals(dict) == UNION {{<<d, j>> : j \in 1..Len(dict[d])} : d \in DOMAIN dict}

HasInterval(dict) == AllIntervals(dict) # {}

WellFormed(dict) ==
    \A p \in AllIntervals(dict) :
        Matches(dict[p[1]][p[2]][1]) /\ Matches(dict[p[1]][p[2]][2])

StartOf(iv) == Strptime(iv[1])
EndOf(iv) == Strptime(iv[2])

MinuteOfDay(t) == 60 * t.hour + t.minute

\* The interval takes a positive part of the clock hour [hour:00, hour+1:00).
Overlaps(iv, hour) ==
    /\ MinuteOfDay(StartOf(iv)) < 60 * (hour + 1)
    /\ MinuteOfDay(EndOf(iv)) > 60 * hour
    /\ MinuteOfDay(StartOf(iv)) < MinuteOfDay(EndOf(iv))

\* Every interval starts and ends on a whole hour, start before end.
WholeHours(ivs) ==
    \A j \in 1..Len(ivs) :
        /\ StartOf(ivs[j]).minute = 0 /\ EndOf(ivs[j]).minute = 0
        /\ StartOf(ivs[j]).hour < EndOf(ivs[j]).hour

\* The hour of the i-th emitted row.
HourOfRow(i) == earliest_hour + i - 1

\* The column of a day in a returned table.
ColumnOf(r, day) == CHOOSE k \in 1..Len(r.headers) : r.headers[k] = day

\* The 12-hour label of an hour, hour 0 being 12:00 AM.
Label12(hour) ==
    [hh |-> ((hour + 11) % 12) + 1, mm |-> 0, ap |-> IF hour >= 12 THEN "PM" ELSE "AM"]

NextDay ==
    ("Monday" :> "Tuesday") @@ ("Tuesday" :> "Wednesday") @@ ("Wednesday" :> "Thursday")
    @@ ("Thursday" :> "Friday") @@ ("Friday" :> "Monday")

\* The four rules of the fine policy.
Rule3(iv, hour) == StartOf(iv).hour <= hour /\ hour < EndOf(iv).hour
Rule1(iv, hour) == Rule3(iv, hour) /\ StartOf(iv).hour = hour /\ StartOf(iv).minute = 30
Rule2(iv, hour) == Rule3(iv, hour) /\ EndOf(iv).hour = hour + 1 /\ EndOf(iv).minute = 30
Rule4(iv, hour) == StartOf(iv).hour = hour /\ StartOf(iv).minute = 0

\* The reference glyph: the first interval that matches any rule decides.
RefGlyph(ivs, hour) ==
    LET matching == {j \in 1..Len(ivs) : Rule3(ivs[j], hour) \/ Rule4(ivs[j], hour)}
    IN  IF matching = {} THEN EmptyCell
        ELSE LET first == ivs[Min(matching)]
             IN  IF Rule1(first, hour) THEN LowerHalf
                 ELSE IF Rule2(first, hour) THEN UpperHalf
                 ELSE FullBlock

\* Two outcomes that differ in the position of the columns only.
SameGrid(r1, r2) ==
    /\ r1.tag = r2.tag /\ r1.exc = r2.exc /\ r1.at = r2.at
    /\ Len(r1.rows) = Len(r2.rows)
    /\ \A i \in 1..Len(r1.rows) :
          /\ r1.rows[i][1] = r2.rows[i][1]
          /\ \A d \in DaySet : r1.rows[i][ColumnOf(r1, d)] = r2.rows[i][ColumnOf(r2, d)]

\* The range a call with this start day derives.
RangeOf(dict, start) ==
    LET slots == CollectSlots(dict, RotateDays(DayIndex(start)))
    IN  <<EarliestHour(slots), LatestHour(slots)>>

\* The failure of the start-day lookup: raised there, and no grid.
InvalidDayOutcome(r) == r.tag = "raise" /\ r.at = "days.index" /\ r.rows = <<>>

(***************************************************************************)
(* C1: whenever the week holds an interval, earliest_hour is the minimum   *)
(* start hour over ALL intervals (one starting at 12:00 AM included) and   *)
(* latest_hour is the maximum end hour over all intervals plus one.        *)
(***************************************************************************)
C1_RangeOverAllIntervals ==
    (Finished /\ ValidStart /\ WellFormed(schedule_dict) /\ HasInterval(schedule_dict)) =>
        /\ earliest_hour =
              Min({StartOf(schedule_dict[p[1]][p[2]]).hour : p \in AllIntervals(schedule_dict)})
        /\ latest_hour =
              Max({EndOf(schedule_dict[p[1]][p[2]]).hour : p \in AllIntervals(schedule_dict)}) + 1

(***************************************************************************)
(* C2: when no day holds an interval the call ends in the dedicated        *)
(* EmptyScheduleError, not in a generic value failure, and returns no grid.*)
(***************************************************************************)
C2_EmptyScheduleError ==
    (Finished /\ ValidStart /\ ~HasInterval(schedule_dict)) =>
        /\ result.tag = "raise"
        /\ result.exc = "EmptyScheduleError"
        /\ result.rows = <<>>

(***************************************************************************)
(* C3: every rendered cell is the reference glyph of its day and hour: the *)
(* first interval in the given order that matches a rule decides, rule 1   *)
(* (lower half) before rule 2 (upper half) before the full block.          *)
(***************************************************************************)
C3_FineGlyph ==
    \A i \in 1..Len(table_data) : \A k \in 1..Len(days) :
        table_data[i][k + 1] = RefGlyph(DayIntervals(schedule_dict, days[k]), HourOfRow(i))

\* A returned grid with a day of two intervals that both match one hour: the first
\* starts and ends on the half hour there (rules 1 and 2), the second alone gives the
\* full block, and the cell is the lower half.
C3_Witness ==
    /\ Finished /\ Returned
    /\ \E d \in DOMAIN schedule_dict : \E i \in 1..Len(result.rows) :
          /\ Len(schedule_dict[d]) = 2
          /\ Rule1(schedule_dict[d][1], HourOfRow(i))
          /\ Rule2(schedule_dict[d][1], HourOfRow(i))
          /\ RefGlyph(<<schedule_dict[d][2]>>, HourOfRow(i)) = FullBlock
          /\ result.rows[i][ColumnOf(result, d)] = LowerHalf

(***************************************************************************)
(* C4: for a day whose intervals all start and end on whole hours, a cell  *)
(* of an emitted row is the full block exactly when some interval has      *)
(* start.hour <= hour < end.hour, and is empty otherwise.                  *)
(***************************************************************************)
C4_WholeHourCoverage ==
    \A i \in 1..Len(table_data) : \A k \in 1..Len(days) :
        LET ivs == DayIntervals(schedule_dict, days[k]) IN
        WholeHours(ivs) =>
            table_data[i][k + 1] =
                IF \E j \in 1..Len(ivs) :
                      StartOf(ivs[j]).hour <= HourOfRow(i) /\ HourOfRow(i) < EndOf(ivs[j]).hour
                THEN FullBlock ELSE EmptyCell

\* A returned grid with a whole-hour day that is empty in the row before its interval,
\* full inside it and empty in the row of its end hour.
C4_Witness ==
    /\ Finished /\ Returned
    /\ \E d \in DOMAIN schedule_dict :
          /\ Len(schedule_dict[d]) = 1
          /\ WholeHours(schedule_dict[d])
          /\ \E i \in 2..(Len(result.rows) - 1) :
                /\ HourOfRow(i) = StartOf(schedule_dict[d][1]).hour
                /\ HourOfRow(i + 1) = EndOf(schedule_dict[d][1]).hour
                /\ result.rows[i - 1][ColumnOf(result, d)] = EmptyCell
                /\ result.rows[i][ColumnOf(result, d)] = FullBlock
                /\ result.rows[i + 1][ColumnOf(result, d)] = EmptyCell

(***************************************************************************)
(* C5: for a valid start day the column order starts with it, holds each   *)
(* of the five days once, and every day is followed by its successor, with *)
(* Friday wrapping to Monday; start day Monday leaves the order unchanged. *)
(***************************************************************************)
C5_DayRotation ==
    (pc # "rotate" /\ ValidStart) =>
        /\ Len(days) = 5
        /\ days[1] = start_day
        /\ \A d \in DaySet : Cardinality({k \in 1..Len(days) : days[k] = d}) = 1
        /\ \A k \in 1..4 : days[k + 1] = NextDay[days[k]]
        /\ days[1] = NextDay[days[5]]
        /\ (start_day = "Monday" => days = WeekDays)

C5_Witness ==
    /\ Finished
    /\ start_day = "Wednesday"
    /\ days = <<"Wednesday", "Thursday", "Friday", "Monday", "Tuesday">>

(***************************************************************************)
(* C6: for any two valid start days the two calls end the same way, with   *)
(* the same hour range, the same row labels and, for every day and row,    *)
(* the same glyph in that day's column.                                    *)
(***************************************************************************)
C6_RotationInvariance ==
    (Finished /\ ValidStart) =>
        \A other \in DaySet :
            /\ SameGrid(result, Render(schedule_dict, other))
            /\ Returned => <<earliest_hour, latest_hour>> = RangeOf(schedule_dict, other)

\* A grid returned for start day Wednesday with two days whose columns differ.
C6_Witness ==
    /\ Finished /\ Returned
    /\ start_day = "Wednesday"
    /\ \E i \in 1..Len(result.rows) :
          /\ result.rows[i][ColumnOf(result, "Monday")] = LowerHalf
          /\ result.rows[i][ColumnOf(result, "Friday")] = FullBlock

(***************************************************************************)
(* C7: a weekday missing from the mapping is no error when another day has *)
(* an interval: the call returns a grid, the missing day's cells are all   *)
(* empty, and the outcome is that of the same week with the day present    *)
(* and without intervals.                                                  *)
(***************************************************************************)
C7_AbsentDay ==
    (Finished /\ ValidStart /\ WellFormed(schedule_dict) /\ HasInterval(schedule_dict)) =>
        \A d \in DaySet \ DOMAIN schedule_dict :
            /\ Returned
            /\ \A i \in 1..Len(result.rows) : result.rows[i][ColumnOf(result, d)] = EmptyCell
            /\ result = Render([x \in DOMAIN schedule_dict \cup {d} |->
                                   IF x = d THEN <<>> ELSE schedule_dict[x]], start_day)

(***************************************************************************)
(* C8: an unrecognised start day makes the call fail at the start-day      *)
(* lookup, before any slot, range, row or cell is computed, whatever the   *)
(* week is; the column order is never defaulted, no grid is returned, and  *)
(* that failure occurs for no recognised start day.                        *)
(***************************************************************************)
C8_InvalidStartDay ==
    /\ ~ValidStart =>
          /\ pc \in {"rotate", "done"}
          /\ days = WeekDays
          /\ time_slots = <<>> /\ earliest_hour = None /\ latest_hour = None
          /\ time_rows = <<>> /\ table_data = <<>>
          /\ Finished => InvalidDayOutcome(result)
    /\ ValidStart => ~InvalidDayOutcome(result)

\* The call has failed on the start day although the week is malformed as well.
C8_Witness ==
    /\ Finished
    /\ ~ValidStart
    /\ ~WellFormed(schedule_dict)
    /\ InvalidDayOutcome(result)

(***************************************************************************)
(* C9: a returned grid has one row per hour of earliest_hour..latest_hour-1*)
(* in ascending order; the hour recovered from a row's label is the hour   *)
(* that produced it; a row is a label and five cells; and a row no         *)
(* interval covers is emitted with five empty cells.                       *)
(***************************************************************************)
C9_GridShape ==
    /\ \A h \in 0..23 : Strftime(h) = Label12(h) /\ RowHour(Strftime(h)) = h
    /\ Returned =>
          /\ Len(result.rows) = latest_hour - earliest_hour
          /\ Len(result.headers) = 6
          /\ \A i \in 1..Len(result.rows) :
                /\ result.rows[i][1] = Label12(HourOfRow(i))
                /\ RowHour(result.rows[i][1]) = HourOfRow(i)
                /\ Len(result.rows[i]) = 6
                /\ (\A p \in AllIntervals(schedule_dict) :
                        ~Overlaps(schedule_dict[p[1]][p[2]], HourOfRow(i)))
                   => \A k \in 2..6 : result.rows[i][k] = EmptyCell

\* A returned grid of several rows whose last row no interval covers.
C9_Witness ==
    /\ Finished /\ Returned
    /\ Len(result.rows) >= 3
    /\ \A p \in AllIntervals(schedule_dict) :
          ~Overlaps(schedule_dict[p[1]][p[2]], HourOfRow(Len(result.rows)))
    /\ \A k \in 2..6 : result.rows[Len(result.rows)][k] = EmptyCell

(***************************************************************************)
(* C10: in a returned grid, every interval leaves a non-empty cell in each *)
(* emitted row whose clock hour it overlaps for a positive duration.       *)
(***************************************************************************)
C10_NoScheduledTimeFree ==
    (Finished /\ Returned) =>
        \A p \in AllIntervals(schedule_dict) : \A i \in 1..Len(result.rows) :
            Overlaps(schedule_dict[p[1]][p[2]], HourOfRow(i))
                => result.rows[i][ColumnOf(result, p[1])] # EmptyCell

====
